---- MODULE Spec2Model ----
(***************************************************************************)
(* Model of the proof envelope codec of crev-data (src/crev-data/src/      *)
(* proof/mod.rs): Display for Serialized, Serialized::parse with its line  *)
(* state machine (State::process_line, State::finish), Serialized::        *)
(* to_parsed, Proof::parse and Proof::verify.                              *)
(*                                                                         *)
(* Text is a sequence of tokens.  A token is a fixed byte string: a single *)
(* byte ("x", " ", "CR", "LF"), a run of non-whitespace bytes of a known   *)
(* length ("BODYBLOB", "SIGBLOB"), one of the nine marker constants, the   *)
(* text of a content document, or the text of a signature.  Two texts are  *)
(* equal byte for byte iff their token sequences are equal.                *)
(*                                                                         *)
(* Spec feeds Serialized::parse arbitrary lines; SpecDoc writes documents  *)
(* with Display and reads them back with Proof::parse and Proof::verify;   *)
(* SpecId builds identities (src/crev-data/src/id.rs) and signs with them. *)
(***************************************************************************)
EXTENDS Integers, Sequences, FiniteSets, TLC

VARIABLES state, result, source, seen, v, presult, orig, input, verdicts, ident,
          cycle

vars ==
  <<state, result, source, seen, v, presult, orig, input, verdicts, ident, cycle>>

----------------------------------------------------------------------------
(* Program constants *)

MAX_PROOF_BODY_LENGTH == 32000

MAX_SIGNATURE_LENGTH == 2000

(* Bounds of the model *)

MaxBlocks == 2

MaxContent == 1

MaxSizeContent == 2

MaxDocs == 2

MaxCycles == 2

----------------------------------------------------------------------------
(* ProofType and its marker tables *)

ProofType == {"Code", "Package", "Trust"}

begin_block(self) ==
  CASE self = "Code" -> <<"Code::BEGIN_BLOCK">>
    [] self = "Package" -> <<"Package::BEGIN_BLOCK">>
    [] self = "Trust" -> <<"Trust::BEGIN_BLOCK">>

begin_signature(self) ==
  CASE self = "Code" -> <<"Code::BEGIN_SIGNATURE">>
    [] self = "Package" -> <<"Package::BEGIN_SIGNATURE">>
    [] self = "Trust" -> <<"Trust::BEGIN_SIGNATURE">>

end_block(self) ==
  CASE self = "Code" -> <<"Code::END_BLOCK">>
    [] self = "Package" -> <<"Package::END_BLOCK">>
    [] self = "Trust" -> <<"Trust::END_BLOCK">>

MarkerTokens ==
  { "Code::BEGIN_BLOCK", "Package::BEGIN_BLOCK", "Trust::BEGIN_BLOCK",
    "Code::BEGIN_SIGNATURE", "Package::BEGIN_SIGNATURE", "Trust::BEGIN_SIGNATURE",
    "Code::END_BLOCK", "Package::END_BLOCK", "Trust::END_BLOCK" }

(* Byte length of a marker constant; the marker text is a non-empty string *)
(* without surrounding whitespace and without a line terminator.           *)
MarkerBytes(tok) == 25

----------------------------------------------------------------------------
(* Strings *)

WhiteSpace == {" ", "CR", "LF"}

(* A content token is the text of one well-formed content document, named  *)
(* by its kind and its author.                                              *)
ContentTokens == { "Code/alice", "Trust/alice", "Package/bob" }

ContentKind(tok) ==
  CASE tok = "Code/alice" -> "Code"
    [] tok = "Trust/alice" -> "Trust"
    [] tok = "Package/bob" -> "Package"

ContentAuthor(tok) ==
  CASE tok = "Code/alice" -> "alice"
    [] tok = "Trust/alice" -> "alice"
    [] tok = "Package/bob" -> "bob"

Authors == {"alice", "bob"}

(* The signature text of identity id over the bytes msg: one token, with a *)
(* different token for every identity and every message.                    *)
Sign(id, msg) == (("sig(" \o id) \o ",") \o (ToString(msg) \o ")")

SignedBodies ==
  { <<"Code/alice", "LF">>, <<"Code/alice", " ", "LF">>,
    <<"Trust/alice", "LF">>, <<"Package/bob", "LF">> }

SignatureTokens == { Sign(id, msg) : id \in Authors, msg \in SignedBodies }

SignatureBytes(tok) == 88

TokenBytes(tok) ==
  CASE tok = "BODYBLOB" -> MAX_PROOF_BODY_LENGTH - 1
    [] tok = "SIGBLOB" -> MAX_SIGNATURE_LENGTH - 1
    [] tok \in MarkerTokens -> MarkerBytes(tok)
    [] tok \in SignatureTokens -> SignatureBytes(tok)
    [] OTHER -> 1

RECURSIVE len(_)
len(s) == IF s = <<>> THEN 0 ELSE TokenBytes(Head(s)) + len(Tail(s))

RECURSIVE trim_start(_)
trim_start(s) ==
  IF s # <<>> /\ Head(s) \in WhiteSpace THEN trim_start(Tail(s)) ELSE s

RECURSIVE trim_end(_)
trim_end(s) ==
  IF s # <<>> /\ s[Len(s)] \in WhiteSpace
    THEN trim_end(SubSeq(s, 1, Len(s) - 1))
    ELSE s

trim(s) == trim_end(trim_start(s))

----------------------------------------------------------------------------
(* State of Serialized::parse *)

StateDefault ==
  [ stage |-> "None", body |-> <<>>, signature |-> <<>>, type_ |-> "Trust",
    proofs |-> <<>> ]

Serialized(body, signature, type_) ==
  [ body |-> body, signature |-> signature, type_ |-> type_ ]

Bail(self, msg) == [ state |-> self, err |-> msg ]

Done(self) == [ state |-> self, err |-> "" ]

(* Variant: the Trust and Package begin-block markers select each other's  *)
(* kind.                                                                    *)
StageNone_SwapKind(self, ln) ==
  LET l == trim(ln) IN
  IF l = <<>> THEN Done(self)
  ELSE IF l = begin_block("Code")
    THEN Done([self EXCEPT !.type_ = "Code", !.stage = "Body"])
  ELSE IF l = begin_block("Trust")
    THEN Done([self EXCEPT !.type_ = "Package", !.stage = "Body"])
  ELSE IF l = begin_block("Package")
    THEN Done([self EXCEPT !.type_ = "Trust", !.stage = "Body"])
  ELSE Bail(self, "Parsing error when looking for start of code review proof")

(* Variant: a line that is no begin-block marker is skipped outside a      *)
(* block.                                                                   *)
StageNone_SkipUnknown(self, ln) ==
  LET l == trim(ln) IN
  IF l = begin_block("Code")
    THEN Done([self EXCEPT !.type_ = "Code", !.stage = "Body"])
  ELSE IF l = begin_block("Trust")
    THEN Done([self EXCEPT !.type_ = "Trust", !.stage = "Body"])
  ELSE IF l = begin_block("Package")
    THEN Done([self EXCEPT !.type_ = "Package", !.stage = "Body"])
  ELSE Done(self)

(* Variant: the Package begin-block marker opens a block without setting   *)
(* the kind.                                                                *)
StageNone_KeepType(self, ln) ==
  LET l == trim(ln) IN
  IF l = <<>> THEN Done(self)
  ELSE IF l = begin_block("Code")
    THEN Done([self EXCEPT !.type_ = "Code", !.stage = "Body"])
  ELSE IF l = begin_block("Trust")
    THEN Done([self EXCEPT !.type_ = "Trust", !.stage = "Body"])
  ELSE IF l = begin_block("Package")
    THEN Done([self EXCEPT !.stage = "Body"])
  ELSE Bail(self, "Parsing error when looking for start of code review proof")

StageNone(self, ln) ==
  LET l == trim(ln) IN
  IF l = <<>> THEN Done(self)
  ELSE IF l = begin_block("Code")
    THEN Done([self EXCEPT !.type_ = "Code", !.stage = "Body"])
  ELSE IF l = begin_block("Trust")
    THEN Done([self EXCEPT !.type_ = "Trust", !.stage = "Body"])
  ELSE IF l = begin_block("Package")
    THEN Done([self EXCEPT !.type_ = "Package", !.stage = "Body"])
  ELSE Bail(self, "Parsing error when looking for start of code review proof")

(* Variant: the body limit is exclusive.                                     *)
BodyLimit_Inclusive(self) == len(self.body) >= MAX_PROOF_BODY_LENGTH

BodyLimit(self) == len(self.body) > MAX_PROOF_BODY_LENGTH

(* Variant: a body line is appended after trimming.                         *)
StageBody_Trimmed(self, ln) ==
  LET s1 == IF trim(ln) = begin_signature(self.type_)
              THEN [self EXCEPT !.stage = "Signature"]
              ELSE [self EXCEPT !.body = (@ \o trim(ln)) \o <<"LF">>]
  IN IF BodyLimit(s1) THEN Bail(s1, "Proof body too long") ELSE Done(s1)

(* Variant: the begin-signature marker is compared to the untrimmed line.   *)
StageBody_NoTrim(self, ln) ==
  LET s1 == IF ln = begin_signature(self.type_)
              THEN [self EXCEPT !.stage = "Signature"]
              ELSE [self EXCEPT !.body = (@ \o ln) \o <<"LF">>]
  IN IF BodyLimit(s1) THEN Bail(s1, "Proof body too long") ELSE Done(s1)

(* Variant: the end-block marker closes a block already in its body.       *)
StageBody_EarlyEnd(self, ln) ==
  LET s1 == IF trim(ln) = begin_signature(self.type_)
              THEN [self EXCEPT !.stage = "Signature"]
            ELSE IF trim(ln) = end_block(self.type_)
              THEN [self EXCEPT
                      !.stage = "None",
                      !.proofs = Append(@, Serialized(self.body, <<>>,
                                                      self.type_)),
                      !.body = <<>>]
              ELSE [self EXCEPT !.body = (@ \o ln) \o <<"LF">>]
  IN IF BodyLimit(s1) THEN Bail(s1, "Proof body too long") ELSE Done(s1)

StageBody(self, ln) ==
  LET s1 == IF trim(ln) = begin_signature(self.type_)
              THEN [self EXCEPT !.stage = "Signature"]
              ELSE [self EXCEPT !.body = (@ \o ln) \o <<"LF">>]
  IN IF BodyLimit(s1) THEN Bail(s1, "Proof body too long") ELSE Done(s1)

(* Variant: the signature is held to the body's limit.                     *)
SignatureLimit_AsBody(self) == len(self.signature) > MAX_PROOF_BODY_LENGTH

SignatureLimit(self) == len(self.signature) > MAX_SIGNATURE_LENGTH

(* Variant: the end-block marker of any kind closes the block.             *)
StageSignature_AnyEnd(self, ln) ==
  LET s1 == IF \E t \in ProofType : trim(ln) = end_block(t)
              THEN [self EXCEPT
                      !.stage = "None",
                      !.proofs = Append(@, Serialized(self.body, self.signature,
                                                      self.type_)),
                      !.body = <<>>,
                      !.signature = <<>>]
              ELSE [self EXCEPT !.signature = (@ \o ln) \o <<"LF">>]
  IN IF SignatureLimit(s1) THEN Bail(s1, "Signature too long") ELSE Done(s1)

(* Variant: the body buffer is kept when a block is emitted.               *)
StageSignature_KeepBody(self, ln) ==
  LET s1 == IF trim(ln) = end_block(self.type_)
              THEN [self EXCEPT
                      !.stage = "None",
                      !.proofs = Append(@, Serialized(self.body, self.signature,
                                                      self.type_)),
                      !.signature = <<>>]
              ELSE [self EXCEPT !.signature = (@ \o ln) \o <<"LF">>]
  IN IF SignatureLimit(s1) THEN Bail(s1, "Signature too long") ELSE Done(s1)

(* Variant: a signature line is appended without its line feed.           *)
StageSignature_NoLF(self, ln) ==
  LET s1 == IF trim(ln) = end_block(self.type_)
              THEN [self EXCEPT
                      !.stage = "None",
                      !.proofs = Append(@, Serialized(self.body, self.signature,
                                                      self.type_)),
                      !.body = <<>>,
                      !.signature = <<>>]
              ELSE [self EXCEPT !.signature = @ \o ln]
  IN IF SignatureLimit(s1) THEN Bail(s1, "Signature too long") ELSE Done(s1)

StageSignature(self, ln) ==
  LET s1 == IF trim(ln) = end_block(self.type_)
              THEN [self EXCEPT
                      !.stage = "None",
                      !.proofs = Append(@, Serialized(self.body, self.signature,
                                                      self.type_)),
                      !.body = <<>>,
                      !.signature = <<>>]
              ELSE [self EXCEPT !.signature = (@ \o ln) \o <<"LF">>]
  IN IF SignatureLimit(s1) THEN Bail(s1, "Signature too long") ELSE Done(s1)

process_line(self, ln) ==
  CASE self.stage = "None" -> StageNone(self, ln)
    [] self.stage = "Body" -> StageBody(self, ln)
    [] self.stage = "Signature" -> StageSignature(self, ln)

(* Variant: end of input closes an open block silently.                     *)
finish_Lenient(self) == [ ok |-> TRUE, proofs |-> self.proofs, err |-> "" ]

finish(self) ==
  IF self.stage # "None"
    THEN [ ok |-> FALSE, proofs |-> <<>>, err |-> "Unexpected EOF while parsing" ]
    ELSE [ ok |-> TRUE, proofs |-> self.proofs, err |-> "" ]

Pending == [ ok |-> FALSE, proofs |-> <<>>, err |-> "pending" ]

Closed == [ open |-> FALSE, text |-> <<>> ]

(* No identity has been asked for *)
NoPubId == [ url |-> "", id |-> <<>>, type_ |-> "none" ]

NoKeypair == [ secret |-> "", public |-> <<>> ]

NoOwnId == [ status |-> "none", id |-> NoPubId, keypair |-> NoKeypair ]

NoSignature == [ seed |-> "", hash |-> "", pub |-> <<>>, msg |-> <<>>, flip |-> 0 ]

NoIdent ==
  [ rng |-> "available", op |-> "none", own |-> NoOwnId, msg |-> <<>>,
    sig |-> NoSignature, tampered |-> "none", verdict |-> "none" ]

Err(msg) == [ ok |-> FALSE, proofs |-> <<>>, err |-> msg ]

----------------------------------------------------------------------------
(* Input lines offered to the parser *)

Padded(m) == (<<" ">> \o m) \o <<" ">>

MarkerLines ==
  UNION { { begin_block(t), begin_signature(t), end_block(t) } : t \in ProofType }

(* Streams of short lines with every marker of every kind, unpadded.       *)
GeneralLines == { <<>>, <<" ", "x", " ">> } \cup MarkerLines

(* Streams whose marker lines carry leading and trailing whitespace.        *)
PaddedLines ==
  { <<" ">>, <<" ", "x", " ">>,
    Padded(begin_signature("Code")), Padded(end_block("Code")) }
    \cup { Padded(begin_block(t)) : t \in ProofType }

(* Streams with lines long enough to reach the two size limits.             *)
SizeLines ==
  { <<>>, <<"BODYBLOB">>, <<"SIGBLOB">>,
    begin_block("Code"), begin_signature("Code"), end_block("Code") }

Sources == {"general", "padded", "size"}

Lines(src) ==
  CASE src = "general" -> GeneralLines
    [] src = "padded" -> PaddedLines
    [] src = "size" -> SizeLines

RECURSIVE CountLF(_)
CountLF(s) ==
  IF s = <<>> THEN 0
  ELSE (IF Head(s) = "LF" THEN 1 ELSE 0) + CountLF(Tail(s))

RECURSIVE ContentOfProofs(_)
ContentOfProofs(ps) ==
  IF ps = <<>> THEN 0
  ELSE CountLF(Head(ps).body) + CountLF(Head(ps).signature)
         + ContentOfProofs(Tail(ps))

ContentLines(self) ==
  CountLF(self.body) + CountLF(self.signature) + ContentOfProofs(self.proofs)

Blocks(self) == Len(self.proofs) + (IF self.stage = "None" THEN 0 ELSE 1)

WithinBounds(src, self) ==
  /\ Blocks(self) <= MaxBlocks
  /\ ContentLines(self) <= (IF src = "size" THEN MaxSizeContent ELSE MaxContent)

----------------------------------------------------------------------------
(* Record of the lines read so far, grouped by the marker lines among them: *)
(* one entry per begin-block marker line met outside a block, holding the   *)
(* kind that marker names, the lines read up to the begin-signature marker  *)
(* line of that kind, the lines read from there up to the end-block marker  *)
(* line of that kind, and the three marker lines as read.  A line read      *)
(* outside a block that is neither blank nor a begin-block marker gets an   *)
(* entry of part "stray".                                                   *)

KindOfBegin(l) ==
  IF \E t \in ProofType : l = begin_block(t)
    THEN CHOOSE t \in ProofType : l = begin_block(t)
    ELSE "none"

StrayClass(l) == IF l \in MarkerLines THEN "marker" ELSE "text"

Outside(sn) == sn = <<>> \/ sn[Len(sn)].part \in {"done", "stray"}

Observe(sn, ln) ==
  LET l == trim(ln)
      n == Len(sn)
  IN IF Outside(sn)
       THEN IF l = <<>> THEN sn
            ELSE IF KindOfBegin(l) # "none"
              THEN Append(sn, [ kind |-> KindOfBegin(l), part |-> "body",
                                blines |-> <<>>, slines |-> <<>>,
                                markers |-> <<ln>> ])
              ELSE Append(sn, [ kind |-> StrayClass(l), part |-> "stray",
                                blines |-> <<>>, slines |-> <<>>,
                                markers |-> <<>> ])
     ELSE IF sn[n].part = "body"
       THEN IF l = begin_signature(sn[n].kind)
              THEN [sn EXCEPT ![n].part = "sig", ![n].markers = Append(@, ln)]
              ELSE [sn EXCEPT ![n].blines = Append(@, ln)]
     ELSE IF l = end_block(sn[n].kind)
       THEN [sn EXCEPT ![n].part = "done", ![n].markers = Append(@, ln)]
       ELSE [sn EXCEPT ![n].slines = Append(@, ln)]

(* The lines of a section, each followed by one line feed *)
RECURSIVE Join(_)
Join(ls) == IF ls = <<>> THEN <<>> ELSE (Head(ls) \o <<"LF">>) \o Join(Tail(ls))

----------------------------------------------------------------------------
(* Serialized::parse, one step per line of reader.lines() *)

Init ==
  /\ state = StateDefault
  /\ result = Pending
  /\ source \in Sources
  /\ seen = <<>>
  /\ v = <<>>
  /\ presult = Pending
  /\ orig = <<>>
  /\ input = Closed
  /\ verdicts = <<>>
  /\ ident = NoIdent
  /\ cycle = 0

ProcessLine ==
  /\ result = Pending
  /\ \E ln \in Lines(source) :
       LET r == process_line(state, ln) IN
       /\ WithinBounds(source, r.state)
       /\ state' = r.state
       /\ seen' = Observe(seen, ln)
       /\ result' = IF r.err = "" THEN Pending ELSE Err(r.err)
  /\ UNCHANGED <<source, v, presult, orig, input, verdicts, ident, cycle>>

Finish ==
  /\ result = Pending
  /\ result' = finish(state)
  /\ UNCHANGED <<state, source, seen, v, presult, orig, input, verdicts, ident, cycle>>

Next == ProcessLine \/ Finish

Spec == Init /\ [][Next]_vars

----------------------------------------------------------------------------
(* Properties of Serialized::parse *)

LastSeen == seen[Len(seen)]

SeenStage ==
  IF Outside(seen) THEN "None"
  ELSE IF LastSeen.part = "body" THEN "Body" ELSE "Signature"

LineErrors ==
  { "Parsing error when looking for start of code review proof",
    "Proof body too long", "Signature too long" }

(* C2: byte preservation. Every emitted triplet's body is the lines read    *)
(* between its begin-block and begin-signature marker lines, in order, each *)
(* unmodified and followed by one line feed; its signature is the same for  *)
(* the lines between the begin-signature and end-block marker lines; and    *)
(* a successful parse returns exactly the emitted triplets.                 *)
C2_BytePreservation ==
  /\ Len(state.proofs) <= Len(seen)
  /\ \A i \in 1..Len(state.proofs) :
       /\ state.proofs[i].body = Join(seen[i].blines)
       /\ state.proofs[i].signature = Join(seen[i].slines)
  /\ result.ok => result.proofs = state.proofs

C2_Witness ==
  /\ result.ok
  /\ \E i \in 1..Len(result.proofs) :
       /\ seen[i].blines = << <<" ", "x", " ">> >>
       /\ result.proofs[i].body = <<" ", "x", " ", "LF">>

(* C3: size guards. The parse has failed with the body error exactly when   *)
(* the accumulated body is 32,001 bytes or more, and with the signature     *)
(* error exactly when the accumulated signature is 2,001 bytes or more, so  *)
(* a body of 32,000 bytes and a signature of 2,000 bytes are accepted.      *)
C3_SizeGuards ==
  /\ (len(state.body) >= 32001) <=> (result = Err("Proof body too long"))
  /\ (len(state.signature) >= 2001) <=> (result = Err("Signature too long"))

C3_Witness ==
  /\ result.ok
  /\ \E i \in 1..Len(result.proofs) :
       /\ len(result.proofs[i].body) = 32000
       /\ len(result.proofs[i].signature) = 2000

(* C4: truncated stream. A parse that ended with the end-of-input error     *)
(* ended in stage Body or Signature; a parse that ended in stage None with  *)
(* no line failing succeeded, and it returns exactly the blocks completed.  *)
C4_TruncatedStream ==
  /\ result.ok =>
       /\ state.stage = "None"
       /\ result.proofs = state.proofs
       /\ Len(result.proofs) = Len(seen)
       /\ \A i \in 1..Len(seen) : seen[i].part = "done"
  /\ (result # Pending /\ state.stage \in {"Body", "Signature"}) => ~result.ok
  /\ (result # Pending /\ state.stage = "None" /\ result.err \notin LineErrors)
       => result.ok
  /\ (result.err = "Unexpected EOF while parsing")
       => (state.stage \in {"Body", "Signature"} /\ SeenStage = state.stage)

C4_Witness ==
  /\ result = Err("Unexpected EOF while parsing")
  /\ state.stage = "Signature"
  /\ Len(state.proofs) = 1

WellFormedSoFar ==
  \A i \in 1..Len(seen) :
    /\ seen[i].part # "stray"
    /\ len(Join(seen[i].blines)) <= 32000
    /\ len(Join(seen[i].slines)) <= 2000

AllClosed == \A i \in 1..Len(seen) : seen[i].part = "done"

(* C5: multi-block stream. While the lines read are well-formed blocks      *)
(* (within the size limits) and blank lines, no line fails; at end of input *)
(* after such lines with every block closed the parse succeeds; and a       *)
(* successful parse returns one triplet per block, in input order, each     *)
(* typed by its block's begin-block marker.                                 *)
C5_MultiBlock ==
  /\ WellFormedSoFar => result.err \notin LineErrors
  /\ (WellFormedSoFar /\ AllClosed /\ result # Pending) => result.ok
  /\ result.ok =>
       /\ Len(result.proofs) = Len(seen)
       /\ \A i \in 1..Len(seen) : result.proofs[i].type_ = seen[i].kind

C5_Witness ==
  /\ result.ok
  /\ Len(result.proofs) = 2
  /\ result.proofs[1].type_ = "Trust"
  /\ result.proofs[2].type_ = "Code"
  /\ seen[1].kind = "Trust"

(* C7: whitespace tolerance. The parser's stage, kind and buffers are those *)
(* obtained by comparing each line to the markers after trimming it, by     *)
(* skipping whitespace-only lines outside a block, and by appending every   *)
(* other line inside a block exactly as read.                               *)
C7_WhitespaceTolerance ==
  (result = Pending) =>
    /\ state.stage = SeenStage
    /\ state.stage # "None" =>
         /\ state.type_ = LastSeen.kind
         /\ state.body = Join(LastSeen.blines)
         /\ state.signature = Join(LastSeen.slines)

C7_Witness ==
  /\ result.ok
  /\ Len(seen) = 1
  /\ seen[1].markers = << Padded(begin_block("Code")),
                          Padded(begin_signature("Code")),
                          Padded(end_block("Code")) >>
  /\ seen[1].blines = << <<" ">> >>
  /\ result.proofs[1].body = <<" ", "LF">>

(* C8: malformed envelope. The parse has failed with the start-of-proof     *)
(* error exactly when the last line read was outside a block, not blank     *)
(* after trimming and not a begin-block marker; such a line is the last one *)
(* processed.                                                               *)
C8_MalformedEnvelope ==
  /\ (result = Err("Parsing error when looking for start of code review proof"))
       <=> (seen # <<>> /\ LastSeen.part = "stray")
  /\ \A i \in 1..Len(seen) : seen[i].part = "stray" => i = Len(seen)
  /\ (seen # <<>> /\ LastSeen.part = "stray") => state.stage = "None"

C8_Witness ==
  /\ result = Err("Parsing error when looking for start of code review proof")
  /\ LastSeen.part = "stray"
  /\ LastSeen.kind = "marker"
  /\ Len(state.proofs) = 1

(* The line by which the reader went from sn to sn2 inside a block *)
LineOf(sn, sn2) ==
  LET n == Len(sn) IN
  IF sn2[n].markers # sn[n].markers THEN sn2[n].markers[Len(sn2[n].markers)]
  ELSE IF sn2[n].blines # sn[n].blines THEN sn2[n].blines[Len(sn2[n].blines)]
  ELSE sn2[n].slines[Len(sn2[n].slines)]

(* C13: kind-specific markers. In the body of a block only the             *)
(* begin-signature marker of the block's own kind moves the parser to the  *)
(* signature, and in the signature only the end-block marker of the        *)
(* block's own kind emits the triplet; any other line, begin-block markers *)
(* and the markers of other kinds included, is appended to the current     *)
(* section with a line feed and leaves the stage unchanged.                *)
C13_KindSpecificMarkers ==
  [][ (result = Pending /\ state.stage # "None" /\ seen' # seen) =>
        LET ln == LineOf(seen, seen') IN
        IF state.stage = "Body"
          THEN IF trim(ln) = begin_signature(state.type_)
                 THEN state' = [state EXCEPT !.stage = "Signature"]
                 ELSE state' = [state EXCEPT !.body = (@ \o ln) \o <<"LF">>]
          ELSE IF trim(ln) = end_block(state.type_)
                 THEN /\ state'.stage = "None"
                      /\ Len(state'.proofs) = Len(state.proofs) + 1
                 ELSE state' = [state EXCEPT !.signature = (@ \o ln) \o <<"LF">>]
    ]_vars

C13_Witness ==
  /\ state.stage = "Signature"
  /\ state.type_ = "Code"
  /\ state.body = begin_signature("Trust") \o <<"LF">>

(* C14: stage ordering. The stage changes only from None to Body, from     *)
(* Body to Signature and from Signature to None; the list of emitted       *)
(* triplets grows by exactly one triplet on each step from Signature to    *)
(* None and is unchanged by every other step.                              *)
C14_StageOrdering ==
  [][ /\ (state'.stage # state.stage) => 
           (<<state.stage, state'.stage>> \in
              { <<"None", "Body">>, <<"Body", "Signature">>, <<"Signature", "None">> })
      /\ IF state.stage = "Signature" /\ state'.stage = "None"
           THEN /\ Len(state'.proofs) = Len(state.proofs) + 1
                /\ SubSeq(state'.proofs, 1, Len(state.proofs)) = state.proofs
           ELSE state'.proofs = state.proofs
    ]_vars

C14_Witness ==
  /\ Len(state.proofs) = 1
  /\ state.stage = "Signature"
  /\ state.type_ # state.proofs[1].type_

(* C15: the placeholder kind is never observable. Outside a block, while   *)
(* the parse goes on, the outcome of the next line and of end of input     *)
(* does not depend on the value of type_ (the initial Trust or the kind of *)
(* an earlier block); in                                                    *)
(* stage Body or Signature type_ is the kind of the begin-block marker     *)
(* that opened the current block; and every emitted triplet has the kind   *)
(* of the begin-block marker that opened its block.                        *)
C15_PlaceholderKind ==
  /\ (state.stage = "None" /\ result = Pending) =>
       \A t \in ProofType \ {state.type_} :
         LET other == [state EXCEPT !.type_ = t] IN
         /\ finish(other) = finish(state)
         /\ \A ln \in Lines(source) :
              \A a \in {process_line(state, ln)} :
                process_line(other, ln) =
                  IF a.state.stage = "None" THEN [a EXCEPT !.state.type_ = t]
                  ELSE a
  /\ (state.stage \in {"Body", "Signature"}) =>
       begin_block(state.type_) = trim(LastSeen.markers[1])
  /\ \A i \in 1..Len(state.proofs) :
       begin_block(state.proofs[i].type_) = trim(seen[i].markers[1])

C15_Witness ==
  /\ state.stage = "Signature"
  /\ state.type_ = "Package"
  /\ Len(state.proofs) = 1
  /\ state.proofs[1].type_ = "Code"

(* C16: buffers are empty outside blocks. In stage None the body and the   *)
(* signature buffer are empty and in stage Body the signature buffer is    *)
(* empty; inside a block the buffers hold the lines of the current block   *)
(* only, and every emitted triplet holds the lines of its own block only,  *)
(* so no triplet contains bytes of a previous block.                       *)
C16_BuffersEmptyOutside ==
  /\ (state.stage = "None") => (state.body = <<>> /\ state.signature = <<>>)
  /\ (state.stage = "Body") => (state.signature = <<>>)
  /\ (state.stage # "None") =>
       /\ state.body = Join(LastSeen.blines)
       /\ state.signature = Join(LastSeen.slines)
  /\ \A i \in 1..Len(state.proofs) :
       /\ seen[i].part = "done"
       /\ state.proofs[i].body = Join(seen[i].blines)
       /\ state.proofs[i].signature = Join(seen[i].slines)

C16_Witness ==
  /\ state.stage = "None"
  /\ Len(state.proofs) = 2
  /\ state.proofs[1].body = <<" ", "x", " ", "LF">>
  /\ state.proofs[2].body = <<>>

SizeErrors == { "Proof body too long", "Signature too long" }

(* C17: bounded output without truncation. While no line has been refused  *)
(* for size the body buffer is at most 32,000 bytes and the signature      *)
(* buffer at most 2,000 bytes, and every emitted triplet is within both    *)
(* limits; a section whose lines exceed its limit ends the parse with the  *)
(* size error at the line that exceeds it, and its block is not emitted.   *)
C17_BoundedOutput ==
  /\ (result.err \notin SizeErrors) =>
       /\ len(state.body) <= MAX_PROOF_BODY_LENGTH
       /\ len(state.signature) <= MAX_SIGNATURE_LENGTH
  /\ \A i \in 1..Len(state.proofs) :
       /\ len(state.proofs[i].body) <= MAX_PROOF_BODY_LENGTH
       /\ len(state.proofs[i].signature) <= MAX_SIGNATURE_LENGTH
  /\ \A i \in 1..Len(seen) :
       /\ (len(Join(seen[i].blines)) > MAX_PROOF_BODY_LENGTH) =>
            /\ result = Err("Proof body too long")
            /\ i = Len(seen)
            /\ seen[i].part = "body"
            /\ Len(state.proofs) = i - 1
       /\ (len(Join(seen[i].slines)) > MAX_SIGNATURE_LENGTH) =>
            /\ result = Err("Signature too long")
            /\ i = Len(seen)
            /\ seen[i].part = "sig"
            /\ Len(state.proofs) = i - 1

C17_Witness ==
  /\ result = Err("Signature too long")
  /\ len(Join(LastSeen.slines)) = MAX_SIGNATURE_LENGTH + 1
  /\ state.signature = Join(LastSeen.slines)
  /\ state.stage = "Signature"

----------------------------------------------------------------------------
(* Display for Serialized and for Proof *)

(* Variant: no line feed is written after the signature.                    *)
fmt_Serialized_NoNewline(self) ==
  begin_block(self.type_) \o <<"LF">> \o self.body
    \o begin_signature(self.type_) \o <<"LF">> \o self.signature
    \o end_block(self.type_) \o <<"LF">>

fmt_Serialized(self) ==
  begin_block(self.type_) \o <<"LF">> \o self.body
    \o begin_signature(self.type_) \o <<"LF">> \o self.signature \o <<"LF">>
    \o end_block(self.type_) \o <<"LF">>

proof_type(content) == content.variant

author_id(content) == content.from

fmt_Proof(self) ==
  begin_block(proof_type(self.content)) \o <<"LF">> \o self.body
    \o begin_signature(proof_type(self.content)) \o <<"LF">>
    \o self.signature \o <<"LF">>
    \o end_block(proof_type(self.content)) \o <<"LF">>

(* BufRead::lines: the next line is the text up to the first line feed,    *)
(* without that line feed and without a carriage return before it; text    *)
(* after the last line feed is a line of its own.                           *)
FirstLF(text) ==
  IF \E i \in 1..Len(text) : text[i] = "LF"
    THEN CHOOSE i \in 1..Len(text) :
           text[i] = "LF" /\ \A j \in 1..(i - 1) : text[j] # "LF"
    ELSE 0

next_line(text) ==
  LET i == FirstLF(text)
      raw == IF i = 0 THEN text ELSE SubSeq(text, 1, i - 1)
  IN [ line |-> IF i # 0 /\ raw # <<>> /\ raw[Len(raw)] = "CR"
                  THEN SubSeq(raw, 1, Len(raw) - 1)
                  ELSE raw,
       rest |-> IF i = 0 THEN <<>> ELSE SubSeq(text, i + 1, Len(text)) ]

----------------------------------------------------------------------------
(* Content parsers, digest and signature check *)

NoContent == [ variant |-> "none", from |-> "none" ]

RECURSIVE NonBlank(_)
NonBlank(s) ==
  IF s = <<>> THEN <<>>
  ELSE IF Head(s) \in WhiteSpace THEN NonBlank(Tail(s))
  ELSE <<Head(s)>> \o NonBlank(Tail(s))

(* Code::parse, Package::parse and Trust::parse followed by into(): the    *)
(* body parses as content of a kind iff, whitespace aside, it is one        *)
(* content document of that kind.                                           *)
ContentParse(kind, body) ==
  LET core == NonBlank(body) IN
  IF Len(core) = 1 /\ core[1] \in ContentTokens /\ ContentKind(core[1]) = kind
    THEN [ ok |-> TRUE,
           content |-> [ variant |-> kind, from |-> ContentAuthor(core[1]) ] ]
    ELSE [ ok |-> FALSE, content |-> NoContent ]

blake2b256sum(bytes) == <<"blake2b256">> \o bytes

(* PubId::verify_signature: the text is the signature of this identity     *)
(* over exactly these bytes.                                                *)
verify_signature(id, msg, sig) == sig = <<Sign(id, msg)>>

(* Variant: the Trust envelope dispatches to the Code content parser.       *)
to_parsed_WrongDispatch(self) ==
  LET c == CASE self.type_ = "Code" -> ContentParse("Code", self.body)
             [] self.type_ = "Package" -> ContentParse("Package", self.body)
             [] self.type_ = "Trust" -> ContentParse("Code", self.body)
  IN [ ok |-> c.ok,
       proof |-> [ body |-> self.body, signature |-> self.signature,
                   digest |-> blake2b256sum(self.body), content |-> c.content ] ]

to_parsed(self) ==
  LET c == CASE self.type_ = "Code" -> ContentParse("Code", self.body)
             [] self.type_ = "Package" -> ContentParse("Package", self.body)
             [] self.type_ = "Trust" -> ContentParse("Trust", self.body)
  IN [ ok |-> c.ok,
       proof |-> [ body |-> self.body, signature |-> self.signature,
                   digest |-> blake2b256sum(self.body), content |-> c.content ] ]

signature(self) == trim(self.signature)

(* Variant: the body is trimmed before the signature check.                 *)
verify_TrimmedBody(self) ==
  verify_signature(author_id(self.content), trim(self.body), signature(self))

verify(self) ==
  verify_signature(author_id(self.content), self.body, signature(self))

----------------------------------------------------------------------------
(* Documents written with Display and read back with Proof::parse *)

SigA == Sign("alice", <<"Code/alice", "LF">>)

Docs ==
  { Serialized(<<"Code/alice", "LF">>, <<SigA>>, "Code"),
    Serialized(<<"Code/alice", " ", "LF">>, <<SigA>>, "Code"),
    Serialized(<<"Code/alice", "LF">>, <<" ", SigA, " ">>, "Code"),
    Serialized(<<"Code/alice", "LF">>, <<SigA, "LF">>, "Code"),
    Serialized(<<"Code/alice", "LF">>, <<SigA, "CR">>, "Code"),
    Serialized(<<"Code/alice", "LF">>, <<Sign("bob", <<"Code/alice", "LF">>)>>,
               "Code"),
    Serialized(<<"Code/alice", "LF">>, <<"SIGBLOB", "x">>, "Code"),
    Serialized(<<"Code/alice", "LF">>, end_block("Code"), "Code"),
    Serialized(<<"Code/alice", "LF">>, <<SigA>>, "Trust"),
    Serialized(<<"Code/alice">>, <<SigA>>, "Code"),
    Serialized(<<"Code/alice", "CR", "LF">>, <<SigA>>, "Code"),
    Serialized(<<"Code/alice", "CR", "CR", "LF">>, <<SigA>>, "Code"),
    Serialized(begin_signature("Code") \o <<"LF">>, <<SigA>>, "Code"),
    Serialized(<<"x", "LF">>, <<>>, "Code"),
    Serialized(<<>>, <<>>, "Package"),
    Serialized(<<"BODYBLOB", "LF">>, <<"SIGBLOB">>, "Code"),
    Serialized(<<"BODYBLOB", "x", "LF">>, <<>>, "Code"),
    Serialized(<<"Trust/alice", "LF">>,
               <<Sign("alice", <<"Trust/alice", "LF">>)>>, "Trust"),
    Serialized(<<"Package/bob", "LF">>,
               <<Sign("bob", <<"Package/bob", "LF">>)>>, "Package") }

DocStreams == UNION { [1..n -> Docs] : n \in 0..MaxDocs }

RECURSIVE WriteAll(_)
WriteAll(docs) ==
  IF docs = <<>> THEN <<>> ELSE fmt_Serialized(Head(docs)) \o WriteAll(Tail(docs))

InitDoc ==
  /\ state = StateDefault
  /\ result = Pending
  /\ source = "doc"
  /\ seen = <<>>
  /\ v = <<>>
  /\ presult = Pending
  /\ orig \in DocStreams
  /\ input = Closed
  /\ verdicts = <<>>
  /\ ident = NoIdent
  /\ cycle = 0

(* to_string of every document, one after the other, into the reader *)
Write ==
  /\ ~input.open
  /\ input' = [ open |-> TRUE, text |-> WriteAll(orig) ]
  /\ UNCHANGED <<state, result, source, seen, v, presult, orig, verdicts, ident, cycle>>

(* Variant: the error of process_line is dropped and the loop goes on.      *)
ReadLine_Swallow ==
  /\ input.open
  /\ input.text # <<>>
  /\ result = Pending
  /\ LET nl == next_line(input.text)
         r == process_line(state, nl.line)
     IN /\ state' = r.state
        /\ seen' = Observe(seen, nl.line)
        /\ result' = Pending
        /\ input' = [input EXCEPT !.text = nl.rest]
  /\ UNCHANGED <<source, v, presult, orig, verdicts, ident, cycle>>

(* One iteration of the loop over reader.lines() *)
ReadLine ==
  /\ input.open
  /\ input.text # <<>>
  /\ result = Pending
  /\ LET nl == next_line(input.text)
         r == process_line(state, nl.line)
     IN /\ state' = r.state
        /\ seen' = Observe(seen, nl.line)
        /\ result' = IF r.err = "" THEN Pending ELSE Err(r.err)
        /\ input' = [input EXCEPT !.text = nl.rest]
  /\ UNCHANGED <<source, v, presult, orig, verdicts, ident, cycle>>

(* The reader is exhausted: state.finish() *)
EndOfInput ==
  /\ input.open
  /\ input.text = <<>>
  /\ result = Pending
  /\ result' = finish(state)
  /\ UNCHANGED <<state, source, seen, v, presult, orig, input, verdicts, ident, cycle>>

(* Proof::parse: Serialized::parse(reader)? failed *)
ParseFailed ==
  /\ result # Pending
  /\ ~result.ok
  /\ presult = Pending
  /\ presult' = Err(result.err)
  /\ UNCHANGED <<state, result, source, seen, v, orig, input, verdicts, ident, cycle>>

(* Variant: a triplet's content is parsed as soon as the envelope reader   *)
(* has emitted it.                                                          *)
ToParsed_Eager ==
  /\ result = Pending \/ result.ok
  /\ presult = Pending
  /\ Len(v) < Len(state.proofs)
  /\ LET r == to_parsed(state.proofs[Len(v) + 1]) IN
       IF r.ok
         THEN v' = Append(v, r.proof) /\ presult' = presult
         ELSE v' = v /\ presult' = Err("content")
  /\ UNCHANGED <<state, result, source, seen, orig, input, verdicts, ident, cycle>>

(* Proof::parse: one iteration of the loop over the triplets *)
ToParsed ==
  /\ result.ok
  /\ presult = Pending
  /\ Len(v) < Len(result.proofs)
  /\ LET r == to_parsed(result.proofs[Len(v) + 1]) IN
       IF r.ok
         THEN v' = Append(v, r.proof) /\ presult' = presult
         ELSE v' = v /\ presult' = Err("content")
  /\ UNCHANGED <<state, result, source, seen, orig, input, verdicts, ident, cycle>>

(* Proof::parse: Ok(v) *)
ParseReturn ==
  /\ result.ok
  /\ presult = Pending
  /\ Len(v) = Len(result.proofs)
  /\ presult' = [ ok |-> TRUE, proofs |-> v, err |-> "" ]
  /\ UNCHANGED <<state, result, source, seen, v, orig, input, verdicts, ident, cycle>>

(* Proof::verify on the next proof returned *)
Verify ==
  /\ presult.ok
  /\ Len(verdicts) < Len(presult.proofs)
  /\ verdicts' = Append(verdicts, verify(presult.proofs[Len(verdicts) + 1]))
  /\ UNCHANGED <<state, result, source, seen, v, presult, orig, input, ident, cycle>>

(* to_string of one triplet returned by Serialized::parse, into a new      *)
(* reader for a new parse                                                   *)
Reserialise ==
  /\ result.ok
  /\ cycle < MaxCycles
  /\ \E i \in 1..Len(result.proofs) :
       /\ orig' = <<result.proofs[i]>>
       /\ input' = [ open |-> TRUE, text |-> fmt_Serialized(result.proofs[i]) ]
  /\ state' = StateDefault
  /\ result' = Pending
  /\ seen' = <<>>
  /\ v' = <<>>
  /\ presult' = Pending
  /\ verdicts' = <<>>
  /\ cycle' = cycle + 1
  /\ UNCHANGED <<source, ident>>

NextDoc ==
  \/ Write \/ ReadLine \/ EndOfInput \/ ParseFailed \/ ToParsed \/ ParseReturn
  \/ Verify \/ Reserialise

SpecDoc == InitDoc /\ [][NextDoc]_vars

----------------------------------------------------------------------------
(* Properties of the written and re-read documents *)

NoCRLF(s) == \A i \in 1..(Len(s) - 1) : ~(s[i] = "CR" /\ s[i + 1] = "LF")

(* The lines of a text that ends with a line feed, split at line feeds *)
RECURSIVE RawLines(_)
RawLines(s) ==
  IF s = <<>> THEN <<>>
  ELSE LET i == FirstLF(s) IN
       IF i = 0 THEN <<s>>
       ELSE <<SubSeq(s, 1, i - 1)>> \o RawLines(SubSeq(s, i + 1, Len(s)))

(* A triplet whose text reads back: the body is whole lines, none of them  *)
(* the begin-signature marker of its kind; no line of the signature is the *)
(* end-block marker of its kind; no line ends with a carriage return; and  *)
(* the signature with one more line feed is within the limit.               *)
ReadsBack(x) ==
  /\ len(x.body) <= 32000
  /\ len(x.signature) <= 1999
  /\ x.body = <<>> \/ x.body[Len(x.body)] = "LF"
  /\ NoCRLF(x.body)
  /\ NoCRLF(x.signature \o <<"LF">>)
  /\ \A i \in 1..Len(RawLines(x.body)) :
       trim(RawLines(x.body)[i]) # begin_signature(x.type_)
  /\ \A i \in 1..Len(RawLines(x.signature \o <<"LF">>)) :
       trim(RawLines(x.signature \o <<"LF">>)[i]) # end_block(x.type_)

(* C1 as stated: parsing the Display text of a triplet within the size      *)
(* limits succeeds and returns exactly that triplet.                        *)
C1_RoundTrip_Original ==
  ( /\ Len(orig) = 1
    /\ len(orig[1].body) <= 32000
    /\ len(orig[1].signature) <= 2000
    /\ result # Pending )
  => (result.ok /\ result.proofs = <<orig[1]>>)

(* C1, amended: parsing the Display text of a triplet that reads back       *)
(* succeeds and returns exactly one triplet, with the same body and kind    *)
(* and with the signature followed by one more line feed.                   *)
C1_RoundTrip ==
  (Len(orig) = 1 /\ ReadsBack(orig[1]) /\ result # Pending)
  => /\ result.ok
     /\ result.proofs =
          << Serialized(orig[1].body, orig[1].signature \o <<"LF">>,
                        orig[1].type_) >>

C1_Witness ==
  /\ Len(orig) = 1
  /\ ReadsBack(orig[1])
  /\ orig[1].signature = <<SigA>>
  /\ result.ok
  /\ result.proofs[1].body = orig[1].body
  /\ result.proofs[1].signature = <<SigA, "LF">>

(* C6: fail-fast and atomic. A line that process_line rejects, or the end   *)
(* of input inside a block, ends Serialized::parse with an error; after     *)
(* that no further line is read and the parser state no longer changes;     *)
(* and Proof::parse then returns that error, with no proof built from the   *)
(* blocks completed before the failure.                                     *)
C6_FailFast ==
  /\ []( (result # Pending /\ ~result.ok) =>
           /\ result.proofs = <<>>
           /\ v = <<>>
           /\ verdicts = <<>>
           /\ presult \in {Pending, Err(result.err)} )
  /\ [][ ( /\ result = Pending /\ input.open /\ input.text # <<>>
           /\ process_line(state, next_line(input.text).line).err # "" )
         => (result' # Pending /\ ~result'.ok) ]_vars
  /\ [][ ( /\ result = Pending /\ input.open /\ input.text = <<>>
           /\ state.stage # "None" )
         => (result' # Pending /\ ~result'.ok) ]_vars
  /\ [][ (result # Pending /\ ~result.ok)
         => (state' = state /\ input' = input /\ result' = result) ]_vars

C6_Witness ==
  /\ result = Err("Parsing error when looking for start of code review proof")
  /\ Len(state.proofs) = 1
  /\ input.text # <<>>
  /\ presult = Err(result.err)

DocAuthor(x) == ContentAuthor(NonBlank(x.body)[1])

(* C9: verification uses the raw body. For documents that read back, the    *)
(* verdict of Proof::verify on the i-th proof is whether the i-th           *)
(* document's signature, surrounding whitespace aside, is the signature of  *)
(* the content's author over exactly the document's body bytes; so of two   *)
(* proofs by one author with one signature whose bodies differ only in      *)
(* whitespace, signed over one of the two bodies, exactly one verifies.     *)
C9_VerifyRawBody ==
  /\ Len(verdicts) <= Len(orig)
  /\ (\A j \in 1..Len(orig) : ReadsBack(orig[j])) =>
       \A i \in 1..Len(verdicts) :
         verdicts[i] =
           (trim(orig[i].signature) = <<Sign(DocAuthor(orig[i]), orig[i].body)>>)
  /\ \A i, j \in 1..Len(verdicts) :
       LET p == presult.proofs[i]
           q == presult.proofs[j]
       IN ( /\ author_id(p.content) = author_id(q.content)
            /\ signature(p) = signature(q)
            /\ p.body # q.body
            /\ NonBlank(p.body) = NonBlank(q.body)
            /\ \/ signature(p) = <<Sign(author_id(p.content), p.body)>>
               \/ signature(p) = <<Sign(author_id(p.content), q.body)>> )
          => verdicts[i] # verdicts[j]

C9_Witness ==
  /\ orig = << Serialized(<<"Code/alice", "LF">>, <<SigA>>, "Code"),
              Serialized(<<"Code/alice", " ", "LF">>, <<SigA>>, "Code") >>
  /\ verdicts = <<TRUE, FALSE>>

(* C10: kind agreement. The content of every Proof built by to_parsed has   *)
(* the kind of the triplet it was built from, and Display for the Proof     *)
(* writes the text Display for the triplet writes.                          *)
C10_KindAgreement ==
  /\ Len(v) <= Len(result.proofs)
  /\ \A i \in 1..Len(v) :
       /\ proof_type(v[i].content) = result.proofs[i].type_
       /\ fmt_Proof(v[i]) = fmt_Serialized(result.proofs[i])

C10_Witness ==
  /\ Len(v) = 2
  /\ proof_type(v[1].content) = "Trust"
  /\ proof_type(v[2].content) = "Package"
  /\ result.proofs[1].type_ = "Trust"

(* C18: two-phase ordering of Proof::parse. No content is parsed before    *)
(* the envelope reader has consumed the whole stream and returned; when    *)
(* the envelope reader fails, anywhere in the stream and also after a      *)
(* block whose content is invalid, its error is the one reported and no    *)
(* content is parsed; when it succeeds, to_parsed is applied to the        *)
(* triplets in input order, stops at the first content failure, and on     *)
(* success one proof per triplet is returned in the same order. All of     *)
(* this within one call of Proof::parse.                                    *)
C18_TwoPhase ==
  /\ []( (v # <<>> \/ presult # Pending) =>
           /\ result # Pending
           /\ result.ok => (input.open /\ input.text = <<>>) )
  /\ []( (result # Pending /\ ~result.ok) =>
           /\ v = <<>>
           /\ presult \in {Pending, Err(result.err)} )
  /\ []( (result.ok) =>
           /\ Len(v) <= Len(result.proofs)
           /\ \A i \in 1..Len(v) :
                /\ to_parsed(result.proofs[i]).ok
                /\ v[i] = to_parsed(result.proofs[i]).proof
           /\ presult \in { Pending, Err("content"),
                            [ ok |-> TRUE, proofs |-> v, err |-> "" ] }
           /\ (presult = Err("content")) =>
                /\ Len(v) < Len(result.proofs)
                /\ ~to_parsed(result.proofs[Len(v) + 1]).ok
           /\ presult.ok => (Len(v) = Len(result.proofs)) )
  /\ [][ (presult # Pending /\ cycle' = cycle) => (v' = v /\ presult' = presult)
       ]_vars
  /\ [][ (v' # v /\ cycle' = cycle)
         => (v' = Append(v, to_parsed(result.proofs[Len(v) + 1]).proof)) ]_vars

C18_Witness ==
  /\ result = Err("Unexpected EOF while parsing")
  /\ Len(state.proofs) = 1
  /\ ~to_parsed(state.proofs[1]).ok
  /\ presult = Err(result.err)
  /\ v = <<>>

(* C19 as stated: parsing the Display text of a triplet returned by        *)
(* Serialized::parse whose signature is shorter than 2,000 bytes succeeds  *)
(* with exactly one triplet, which has the same body and kind, the         *)
(* signature followed by one more line feed, and the same trimmed          *)
(* signature.                                                               *)
C19_Reserialise_Original ==
  (cycle > 0 /\ len(orig[1].signature) < MAX_SIGNATURE_LENGTH /\ result # Pending)
  => /\ result.ok
     /\ result.proofs =
          << Serialized(orig[1].body, orig[1].signature \o <<"LF">>,
                        orig[1].type_) >>
     /\ trim(result.proofs[1].signature) = trim(orig[1].signature)

(* C19, amended: parsing the Display text of a triplet returned by         *)
(* Serialized::parse whose signature is shorter than 2,000 bytes and in    *)
(* which no line ends with a carriage return succeeds with exactly one     *)
(* triplet, which has the same body and kind, the signature followed by    *)
(* one more line feed, and the same trimmed signature.                     *)
C19_Reserialise ==
  ( /\ cycle > 0
    /\ len(orig[1].signature) < MAX_SIGNATURE_LENGTH
    /\ NoCRLF(orig[1].body)
    /\ NoCRLF(orig[1].signature)
    /\ result # Pending )
  => /\ result.ok
     /\ result.proofs =
          << Serialized(orig[1].body, orig[1].signature \o <<"LF">>,
                        orig[1].type_) >>
     /\ trim(result.proofs[1].signature) = trim(orig[1].signature)

C19_Witness ==
  /\ cycle = 2
  /\ orig[1].signature = <<SigA, "LF", "LF">>
  /\ result.ok
  /\ result.proofs[1].signature = <<SigA, "LF", "LF", "LF">>
  /\ result.proofs[1].body = orig[1].body

----------------------------------------------------------------------------
(* Identities: PubId, OwnId (src/crev-data/src/id.rs).  A secret key is    *)
(* named by its seed; a public key is the pair of the hash used to derive  *)
(* it and the seed; a signature names the key, the hash and the message it *)
(* was made with, and the bit of it that has been flipped since (0: none). *)

SECRET_KEY_LENGTH == 32

MaxMsgBits == 2

MaxSigBit == 2

Seeds == {"k1", "k2"}

Urls == {"https://a", "https://b"}

(* Byte vectors offered as secret keys: a length and the key they spell *)
SecretInputs ==
  { [ len |-> n, seed |-> k ] :
      n \in { 0, SECRET_KEY_LENGTH - 1, SECRET_KEY_LENGTH, SECRET_KEY_LENGTH + 1 },
      k \in Seeds }

Messages == UNION { [1..n -> {0, 1}] : n \in 0..MaxMsgBits }

PublicKey_from_secret(hash, seed) == <<"pub", hash, seed>>

PubId_new(url, id) == [ url |-> url, id |-> id, type_ |-> "Crev" ]

OwnId_new(url, sec_key) ==
  IF sec_key.len # SECRET_KEY_LENGTH
    THEN [ status |-> "err", id |-> NoPubId, keypair |-> NoKeypair ]
    ELSE LET calculated_pub_key == PublicKey_from_secret("Blake2b", sec_key.seed)
         IN [ status |-> "ok",
              id |-> PubId_new(url, calculated_pub_key),
              keypair |-> [ secret |-> sec_key.seed,
                            public |-> calculated_pub_key ] ]

(* Variant: the signature is made with another hash than the key.          *)
sign_OtherHash(self, msg) ==
  [ seed |-> self.keypair.secret, hash |-> "Sha512",
    pub |-> self.keypair.public, msg |-> msg, flip |-> 0 ]

sign(self, msg) ==
  [ seed |-> self.keypair.secret, hash |-> "Blake2b",
    pub |-> self.keypair.public, msg |-> msg, flip |-> 0 ]

Keypair_generate(hash, seed) ==
  [ secret |-> seed, public |-> PublicKey_from_secret(hash, seed) ]

(* OsRng::new().unwrap(): without a randomness source the call panics *)
generate(url, rng, seed) ==
  IF rng = "unavailable"
    THEN [ status |-> "panic", id |-> NoPubId, keypair |-> NoKeypair ]
    ELSE LET keypair == Keypair_generate("Blake2b", seed)
         IN [ status |-> "ok", id |-> PubId_new(url, keypair.public),
              keypair |-> keypair ]

(* Signature check under a public key: the signature is intact and was     *)
(* made over this message with the secret key and the hash of this public  *)
(* key.                                                                     *)
PublicKey_verify(public_key, msg, sig) ==
  /\ sig.flip = 0
  /\ sig.hash = "Blake2b"
  /\ public_key = PublicKey_from_secret("Blake2b", sig.seed)
  /\ sig.pub = public_key
  /\ sig.msg = msg

FlipBit(m, k) == [m EXCEPT ![k] = 1 - @]

parseVars ==
  <<state, result, source, seen, v, presult, orig, input, verdicts, cycle>>

InitId ==
  /\ state = StateDefault
  /\ result = Pending
  /\ source = "id"
  /\ seen = <<>>
  /\ v = <<>>
  /\ presult = Pending
  /\ orig = <<>>
  /\ input = Closed
  /\ verdicts = <<>>
  /\ cycle = 0
  /\ \E r \in {"available", "unavailable"} : ident = [NoIdent EXCEPT !.rng = r]

Generate ==
  /\ ident.op = "none"
  /\ \E url \in Urls, seed \in Seeds :
       ident' = [ident EXCEPT !.op = "generate",
                              !.own = generate(url, ident.rng, seed)]
  /\ UNCHANGED parseVars

NewOwnId ==
  /\ ident.op = "none"
  /\ \E url \in Urls, sec_key \in SecretInputs :
       ident' = [ident EXCEPT !.op = "new", !.own = OwnId_new(url, sec_key)]
  /\ UNCHANGED parseVars

SignMessage ==
  /\ ident.own.status = "ok"
  /\ ident.sig = NoSignature
  /\ \E m \in Messages :
       ident' = [ident EXCEPT !.msg = m, !.sig = sign(ident.own, m)]
  /\ UNCHANGED parseVars

FlipMessageBit ==
  /\ ident.sig # NoSignature
  /\ ident.tampered = "none"
  /\ ident.verdict = "none"
  /\ \E k \in 1..Len(ident.msg) :
       ident' = [ident EXCEPT !.msg = FlipBit(@, k), !.tampered = "message"]
  /\ UNCHANGED parseVars

FlipSignatureBit ==
  /\ ident.sig # NoSignature
  /\ ident.tampered = "none"
  /\ ident.verdict = "none"
  /\ \E k \in 1..MaxSigBit :
       ident' = [ident EXCEPT !.sig.flip = k, !.tampered = "signature"]
  /\ UNCHANGED parseVars

CheckSignature ==
  /\ ident.sig # NoSignature
  /\ ident.verdict = "none"
  /\ ident' = [ident EXCEPT !.verdict =
                 IF PublicKey_verify(ident.own.id.id, ident.msg, ident.sig)
                   THEN "valid" ELSE "invalid"]
  /\ UNCHANGED parseVars

NextId ==
  \/ Generate \/ NewOwnId \/ SignMessage \/ FlipMessageBit \/ FlipSignatureBit
  \/ CheckSignature

SpecId == InitId /\ [][NextId]_vars

(* C11: OwnId::generate returns an error, and does not panic, when the     *)
(* randomness source cannot be opened, and returns an identity only when   *)
(* the source is available.                                                 *)
C11_GenerateFailsCleanly ==
  (ident.op = "generate") =>
    /\ (ident.rng = "unavailable") => (ident.own.status = "err")
    /\ (ident.own.status = "ok") => (ident.rng = "available")

(* C12: sign/verify correctness. The signature an identity built by        *)
(* generate or new makes over a message verifies under that identity's     *)
(* public key, and no longer verifies once one bit of the message or of    *)
(* the signature has been flipped.                                          *)
C12_SignVerify ==
  (ident.verdict # "none") =>
    ((ident.verdict = "valid") <=> (ident.tampered = "none"))

C12_Witness ==
  /\ ident.op = "generate"
  /\ Len(ident.msg) = 2
  /\ ident.tampered = "none"
  /\ ident.verdict = "valid"

====
